---- MODULE Spec2Model ----
(***************************************************************************)
(* The kitties pallet (pallets/kitties/src/lib.rs): the NextKittyId        *)
(* counter, the Kitties double map, and the two dispatchables create and   *)
(* breed, with the notifications they deposit.                             *)
(*                                                                         *)
(* Each dispatchable runs to completion (the runtime executes extrinsics   *)
(* one after the other), so each is one action.  The randomness seed and   *)
(* the extrinsic index are read from other pallets; they are inputs of a   *)
(* call.  blake2_128 is a library hash: it is modelled as a function that  *)
(* is fixed the first time a payload is hashed (the variable blake2_128    *)
(* remembers the digest of every payload hashed so far).                   *)
(***************************************************************************)
EXTENDS Integers, Sequences, FiniteSets, TLC

VARIABLES
    NextKittyId,   \* storage value NextKittyId: u32
    Kitties,       \* storage double map Kitties: <<owner, kitty_id>> -> dna
    events,        \* the notifications deposited so far, in order
    blake2_128,    \* digest of every payload hashed so far
    last           \* the last call: its arguments, inputs and result

vars == <<NextKittyId, Kitties, events, blake2_128, last>>

----------------------------------------------------------------------------
(* Program constants *)

\* A u32 is held as its two 16-bit halves <<high, low>>: the value is
\* high * Limb + low.  The full width is kept, so that the largest u32 is
\* the value at which checked_add overflows.
Limb == 65536

DnaLen == 16

u32(n) == <<n \div Limb, n % Limb>>

U32Max == <<Limb - 1, Limb - 1>>

u32_lt(a, b) == a[1] < b[1] \/ (a[1] = b[1] /\ a[2] < b[2])

u32_le(a, b) == a = b \/ u32_lt(a, b)

\* a - k for a small k <= a
u32_sub(a, k) ==
    IF a[2] >= k THEN <<a[1], a[2] - k>> ELSE <<a[1] - 1, a[2] + Limb - k>>

\* a + 1 for a # U32Max
u32_succ(a) == IF a[2] + 1 < Limb THEN <<a[1], a[2] + 1>> ELSE <<a[1] + 1, 0>>

NoId == <<>>

(* Bounds of the model *)

\* Spec: calls that would issue an identifier above this are not explored.
MaxKitties == 3


\* SpecOverflow starts with the counter this far below its maximum.
OverflowGap == 1

Accounts == {"Alice", "Bob"}

Seeds == {0}

ExtrinsicIndices == {0, 1}

Errors == {"KittiesIdOverflow", "InvalidKittyId", "SameGender"}

DnaIndex == 0 .. (DnaLen - 1)

\* A 16-byte value that stands for one output of the hash.  The first bytes
\* are 0x00, 0x55, 0xAA, 0xFF, ...: both parities, mixed bit patterns.
Digest(k) == [i \in DnaIndex |-> (k * 85 + i * 37) % 256]

Digests == {Digest(0), Digest(1)}

NoDna == <<>>

NotRead == -1

----------------------------------------------------------------------------
(* Bit operations on u8 *)

RECURSIVE BitAnd(_, _)
BitAnd(x, y) ==
    IF x = 0 \/ y = 0 THEN 0
    ELSE (x % 2) * (y % 2) + 2 * BitAnd(x \div 2, y \div 2)

RECURSIVE BitOr(_, _)
BitOr(x, y) ==
    IF x = 0 THEN y
    ELSE IF y = 0 THEN x
    ELSE (IF x % 2 = 1 \/ y % 2 = 1 THEN 1 ELSE 0) + 2 * BitOr(x \div 2, y \div 2)

BitNot(x) == 255 - x

----------------------------------------------------------------------------
(* Kitty::gender *)

\* (mutant) the last byte of the DNA is tested, not the first
gender_of_last_byte(kitty) ==
    IF kitty[DnaLen - 1] % 2 = 0 THEN "Male" ELSE "Female"

gender(kitty) == IF kitty[0] % 2 = 0 THEN "Male" ELSE "Female"

(* combine_dna *)

\* (mutant) the selector is negated on the wrong side
combine_dna_inverted(dna1, dna2, selector) ==
    BitOr(BitAnd(selector, dna1), BitAnd(BitNot(selector), dna2))

combine_dna(dna1, dna2, selector) ==
    BitOr(BitAnd(BitNot(selector), dna1), BitAnd(selector, dna2))

(* u32::checked_add *)

\* (mutant) wrapping_add in place of checked_add
checked_add_wrapping(a, b) ==
    LET low == a[2] + b
        high == a[1] + (low \div Limb)
    IN  [some |-> TRUE, value |-> <<high % Limb, low % Limb>>]

\* (mutant) saturating_add in place of checked_add
checked_add_saturating(a, b) ==
    LET low == a[2] + b
        high == a[1] + (low \div Limb)
    IN  IF high >= Limb THEN [some |-> TRUE, value |-> U32Max]
        ELSE [some |-> TRUE, value |-> <<high, low % Limb>>]

checked_add(a, b) ==
    LET low == a[2] + b
        high == a[1] + (low \div Limb)
    IN  IF high >= Limb THEN [some |-> FALSE, value |-> NoId]
        ELSE [some |-> TRUE, value |-> <<high, low % Limb>>]

(* get_next_kitty_id: try_mutate writes next_id back only when the closure *)
(* returns Ok.  The result holds the value returned and the value stored.  *)

\* (mutant) the new value of the counter is returned, not the old one
get_next_kitty_id_returns_new(next_id) ==
    LET sum == checked_add(next_id, 1)
    IN  IF ~sum.some
        THEN [ok |-> FALSE, err |-> "KittiesIdOverflow", value |-> NoId,
              stored |-> next_id]
        ELSE [ok |-> TRUE, err |-> "", value |-> sum.value,
              stored |-> sum.value]

\* (mutant) the sum is computed and never written back
get_next_kitty_id_no_advance(next_id) ==
    LET current_id == next_id
        sum == checked_add(next_id, 1)
    IN  IF ~sum.some
        THEN [ok |-> FALSE, err |-> "KittiesIdOverflow", value |-> NoId,
              stored |-> next_id]
        ELSE [ok |-> TRUE, err |-> "", value |-> current_id,
              stored |-> next_id]

\* (mutant) the counter advances by two
get_next_kitty_id_skips(next_id) ==
    LET current_id == next_id
        sum == checked_add(next_id, 2)
    IN  IF ~sum.some
        THEN [ok |-> FALSE, err |-> "KittiesIdOverflow", value |-> NoId,
              stored |-> next_id]
        ELSE [ok |-> TRUE, err |-> "", value |-> current_id,
              stored |-> sum.value]

get_next_kitty_id(next_id) ==
    LET current_id == next_id
        sum == checked_add(next_id, 1)
    IN  IF ~sum.some
        THEN [ok |-> FALSE, err |-> "KittiesIdOverflow", value |-> NoId,
              stored |-> next_id]
        ELSE [ok |-> TRUE, err |-> "", value |-> current_id,
              stored |-> sum.value]

(* Kitties::get and Kitties::insert *)

\* (mutant) the lookup is keyed by the identifier alone
kitties_any_owner(owner, kitty_id) ==
    IF \E k \in DOMAIN Kitties : k[2] = kitty_id
    THEN [some |-> TRUE,
          value |-> Kitties[CHOOSE k \in DOMAIN Kitties : k[2] = kitty_id]]
    ELSE [some |-> FALSE, value |-> NoDna]

kitties(owner, kitty_id) ==
    IF <<owner, kitty_id>> \in DOMAIN Kitties
    THEN [some |-> TRUE, value |-> Kitties[<<owner, kitty_id>>]]
    ELSE [some |-> FALSE, value |-> NoDna]

insert(map, owner, kitty_id, kitty) ==
    [k \in (DOMAIN map) \cup {<<owner, kitty_id>>} |->
        IF k = <<owner, kitty_id>> THEN kitty ELSE map[k]]

(* random_value: it reads the seed and the extrinsic index, and hashes    *)
(* them with the sender.  The result holds what was read and the digest.  *)

payload(sender, seed, extrinsic_index) == <<seed, sender, extrinsic_index>>

hash(p) == IF p \in DOMAIN blake2_128 THEN {blake2_128[p]} ELSE Digests

random_value(sender) ==
    {[seed |-> seed, extrinsic_index |-> extrinsic_index, value |-> digest] :
        <<seed, extrinsic_index, digest>> \in
            {t \in Seeds \X ExtrinsicIndices \X Digests :
                t[3] \in hash(payload(sender, t[1], t[2]))}}

hashed(sender, random) ==
    LET p == payload(sender, random.seed, random.extrinsic_index)
    IN  [q \in (DOMAIN blake2_128) \cup {p} |->
            IF q = p THEN random.value ELSE blake2_128[q]]

(* The loop of breed over the bytes of the two parents *)

\* (mutant) the two parents change places in combine_dna
RECURSIVE breed_loop_swapped(_, _, _, _, _)
breed_loop_swapped(new_dna, kitty1_dna, kitty2_dna, selector, i) ==
    IF i >= DnaLen THEN new_dna
    ELSE breed_loop_swapped(
            [new_dna EXCEPT
                ![i] = combine_dna(kitty2_dna[i], kitty1_dna[i], selector[i])],
            kitty1_dna, kitty2_dna, selector, i + 1)

RECURSIVE breed_loop(_, _, _, _, _)
breed_loop(new_dna, kitty1_dna, kitty2_dna, selector, i) ==
    IF i >= DnaLen THEN new_dna
    ELSE breed_loop(
            [new_dna EXCEPT
                ![i] = combine_dna(kitty1_dna[i], kitty2_dna[i], selector[i])],
            kitty1_dna, kitty2_dna, selector, i + 1)

----------------------------------------------------------------------------
(* The record of a call: its arguments, what random_value read and gave   *)
(* (a call that fails does not reach random_value), and its result.        *)

Called(op, sender, id1, id2, random, kitty_id) ==
    [op |-> op, sender |-> sender, kitty_id_1 |-> id1, kitty_id_2 |-> id2,
     seed |-> random.seed, extrinsic_index |-> random.extrinsic_index,
     random |-> random.value, result |-> "Ok", kitty_id |-> kitty_id]

Error(op, sender, id1, id2, err) ==
    [op |-> op, sender |-> sender, kitty_id_1 |-> id1, kitty_id_2 |-> id2,
     seed |-> NotRead, extrinsic_index |-> NotRead, random |-> NoDna,
     result |-> err, kitty_id |-> NoId]

\* A dispatchable that returns an error before it has written anything
Failed(op, sender, id1, id2, err) ==
    /\ last' = Error(op, sender, id1, id2, err)
    /\ UNCHANGED <<NextKittyId, Kitties, events, blake2_128>>

KittyCreated(sender, kitty_id, kitty) ==
    [name |-> "KittyCreated", owner |-> sender, kitty_id |-> kitty_id,
     kitty |-> kitty]

KittyBred(sender, kitty_id, kitty) ==
    [name |-> "KittyBred", owner |-> sender, kitty_id |-> kitty_id,
     kitty |-> kitty]

----------------------------------------------------------------------------
(* create *)

\* (mutant) the kitty is stored and announced before the identifier is
\* allocated; nothing rolls the writes back when the allocation fails
create_writes_first(sender) ==
    \E dna \in random_value(sender) :
        LET kitty == dna.value
            got == get_next_kitty_id(NextKittyId)
        IN  /\ Kitties' = insert(Kitties, sender, NextKittyId, kitty)
            /\ events' = Append(events, KittyCreated(sender, NextKittyId, kitty))
            /\ blake2_128' = hashed(sender, dna)
            /\ NextKittyId' = got.stored
            /\ last' = IF got.ok
                       THEN Called("create", sender, NoId, NoId, dna, got.value)
                       ELSE Error("create", sender, NoId, NoId, got.err)

\* (mutant) create deposits the notification of breed
create_emits_bred(sender) ==
    LET got == get_next_kitty_id(NextKittyId)
    IN  IF ~got.ok
        THEN Failed("create", sender, NoId, NoId, got.err)
        ELSE \E dna \in random_value(sender) :
                LET kitty_id == got.value
                    kitty == dna.value
                IN  /\ NextKittyId' = got.stored
                    /\ blake2_128' = hashed(sender, dna)
                    /\ Kitties' = insert(Kitties, sender, kitty_id, kitty)
                    /\ events' = Append(events, KittyBred(sender, kitty_id, kitty))
                    /\ last' = Called("create", sender, NoId, NoId, dna, kitty_id)

create(sender) ==
    LET got == get_next_kitty_id(NextKittyId)
    IN  IF ~got.ok
        THEN Failed("create", sender, NoId, NoId, got.err)
        ELSE \E dna \in random_value(sender) :
                LET kitty_id == got.value
                    kitty == dna.value
                IN  /\ NextKittyId' = got.stored
                    /\ blake2_128' = hashed(sender, dna)
                    /\ Kitties' = insert(Kitties, sender, kitty_id, kitty)
                    /\ events' = Append(events, KittyCreated(sender, kitty_id, kitty))
                    /\ last' = Called("create", sender, NoId, NoId, dna, kitty_id)

(* breed *)

\* (mutant) the identifier is allocated before the genders are compared;
\* nothing rolls the counter back when the comparison fails
breed_allocates_first(sender, kitty_id_1, kitty_id_2) ==
    LET kitty1 == kitties(sender, kitty_id_1)
        kitty2 == kitties(sender, kitty_id_2)
        fail(err) == Failed("breed", sender, kitty_id_1, kitty_id_2, err)
    IN  IF ~kitty1.some THEN fail("InvalidKittyId")
        ELSE IF ~kitty2.some THEN fail("InvalidKittyId")
        ELSE LET got == get_next_kitty_id(NextKittyId)
             IN  IF ~got.ok THEN fail(got.err)
                 ELSE IF ~(gender(kitty1.value) # gender(kitty2.value))
                 THEN /\ NextKittyId' = got.stored
                      /\ last' = Error("breed", sender, kitty_id_1, kitty_id_2,
                                       "SameGender")
                      /\ UNCHANGED <<Kitties, events, blake2_128>>
                 ELSE \E selector \in random_value(sender) :
                        LET kitty_id == got.value
                            new_kitty == breed_loop([i \in DnaIndex |-> 0],
                                             kitty1.value, kitty2.value,
                                             selector.value, 0)
                        IN  /\ NextKittyId' = got.stored
                            /\ blake2_128' = hashed(sender, selector)
                            /\ Kitties' = insert(Kitties, sender, kitty_id, new_kitty)
                            /\ events' = Append(events,
                                   KittyBred(sender, kitty_id, new_kitty))
                            /\ last' = Called("breed", sender, kitty_id_1,
                                              kitty_id_2, selector, kitty_id)

\* (mutant) the genders of the parents are not compared
breed_without_gender_check(sender, kitty_id_1, kitty_id_2) ==
    LET kitty1 == kitties(sender, kitty_id_1)
        kitty2 == kitties(sender, kitty_id_2)
        fail(err) == Failed("breed", sender, kitty_id_1, kitty_id_2, err)
    IN  IF ~kitty1.some THEN fail("InvalidKittyId")
        ELSE IF ~kitty2.some THEN fail("InvalidKittyId")
        ELSE LET got == get_next_kitty_id(NextKittyId)
             IN  IF ~got.ok THEN fail(got.err)
                 ELSE \E selector \in random_value(sender) :
                        LET kitty_id == got.value
                            new_kitty == breed_loop([i \in DnaIndex |-> 0],
                                             kitty1.value, kitty2.value,
                                             selector.value, 0)
                        IN  /\ NextKittyId' = got.stored
                            /\ blake2_128' = hashed(sender, selector)
                            /\ Kitties' = insert(Kitties, sender, kitty_id, new_kitty)
                            /\ events' = Append(events,
                                   KittyBred(sender, kitty_id, new_kitty))
                            /\ last' = Called("breed", sender, kitty_id_1,
                                              kitty_id_2, selector, kitty_id)

breed(sender, kitty_id_1, kitty_id_2) ==
    LET kitty1 == kitties(sender, kitty_id_1)
        kitty2 == kitties(sender, kitty_id_2)
        fail(err) == Failed("breed", sender, kitty_id_1, kitty_id_2, err)
    IN  IF ~kitty1.some THEN fail("InvalidKittyId")
        ELSE IF ~kitty2.some THEN fail("InvalidKittyId")
        ELSE IF ~(gender(kitty1.value) # gender(kitty2.value))
        THEN fail("SameGender")
        ELSE LET got == get_next_kitty_id(NextKittyId)
             IN  IF ~got.ok THEN fail(got.err)
                 ELSE \E selector \in random_value(sender) :
                        LET kitty_id == got.value
                            kitty1_dna == kitty1.value
                            kitty2_dna == kitty2.value
                            new_dna == breed_loop([i \in DnaIndex |-> 0],
                                           kitty1_dna, kitty2_dna,
                                           selector.value, 0)
                            new_kitty == new_dna
                        IN  /\ NextKittyId' = got.stored
                            /\ blake2_128' = hashed(sender, selector)
                            /\ Kitties' = insert(Kitties, sender, kitty_id, new_kitty)
                            /\ events' = Append(events,
                                   KittyBred(sender, kitty_id, new_kitty))
                            /\ last' = Called("breed", sender, kitty_id_1,
                                              kitty_id_2, selector, kitty_id)

----------------------------------------------------------------------------
(* The identifiers a caller passes to breed: those of the kitties in the   *)
(* store, whoever owns them, and the one that is not issued yet.           *)

IdArgs == {k[2] : k \in DOMAIN Kitties} \cup {NextKittyId}

NoCall ==
    [op |-> "none", sender |-> "none", kitty_id_1 |-> NoId, kitty_id_2 |-> NoId,
     seed |-> NotRead, extrinsic_index |-> NotRead, random |-> NoDna,
     result |-> "none", kitty_id |-> NoId]

(* The state at genesis: both storage items hold their default *)

Init ==
    /\ NextKittyId = u32(0)
    /\ Kitties = <<>>
    /\ events = <<>>
    /\ blake2_128 = <<>>
    /\ last = NoCall

\* The calls to breed that reach get_next_kitty_id
Allocates(sender, kitty_id_1, kitty_id_2) ==
    /\ <<sender, kitty_id_1>> \in DOMAIN Kitties
    /\ <<sender, kitty_id_2>> \in DOMAIN Kitties
    /\ gender(Kitties[<<sender, kitty_id_1>>])
          # gender(Kitties[<<sender, kitty_id_2>>])

Create ==
    /\ u32_lt(NextKittyId, u32(MaxKitties))
    /\ \E sender \in Accounts : create(sender)

Breed ==
    \E sender \in Accounts, kitty_id_1 \in IdArgs, kitty_id_2 \in IdArgs :
        /\ Allocates(sender, kitty_id_1, kitty_id_2)
              => u32_lt(NextKittyId, u32(MaxKitties))
        /\ breed(sender, kitty_id_1, kitty_id_2)
        /\ u32_le(NextKittyId', u32(MaxKitties))

Next == Create \/ Breed

Spec == Init /\ [][Next]_vars

----------------------------------------------------------------------------
(* A chain whose counter is close to the end of the u32 range.  Of the     *)
(* store only the two most recent kitties are kept; the identifiers of the *)
(* older ones are not passed to breed (IdArgs).                            *)

InitOverflow ==
    /\ NextKittyId = u32_sub(U32Max, OverflowGap)
    /\ \E o1 \in Accounts, o2 \in Accounts, d1 \in Digests, d2 \in Digests :
          Kitties = insert(insert(<<>>, o1, u32_sub(NextKittyId, 2), d1),
                           o2, u32_sub(NextKittyId, 1), d2)
    /\ events = <<>>
    /\ blake2_128 = <<>>
    /\ last = NoCall

CreateCall ==
    \E sender \in Accounts : create(sender)

BreedCall ==
    \E sender \in Accounts, kitty_id_1 \in IdArgs, kitty_id_2 \in IdArgs :
        breed(sender, kitty_id_1, kitty_id_2)

NextOverflow == CreateCall \/ BreedCall

SpecOverflow == InitOverflow /\ [][NextOverflow]_vars

\* create and breed from the counter two below the largest u32: the last two
\* kitties created, a male and a female, are in the store and their
\* notifications are deposited
InitAllocation ==
    /\ NextKittyId = u32_sub(U32Max, 2)
    /\ \E o1 \in Accounts, o2 \in Accounts :
          /\ Kitties = insert(insert(<<>>, o1, u32_sub(NextKittyId, 2), Digest(0)),
                              o2, u32_sub(NextKittyId, 1), Digest(1))
          /\ events = <<KittyCreated(o1, u32_sub(NextKittyId, 2), Digest(0)),
                        KittyCreated(o2, u32_sub(NextKittyId, 1), Digest(1))>>
    /\ blake2_128 = <<>>
    /\ last = NoCall

SpecAllocation == InitAllocation /\ [][NextOverflow]_vars

\* breed alone, from the counter at the largest u32 or one below it
InitNearMax ==
    /\ NextKittyId \in {U32Max, u32_sub(U32Max, 1)}
    /\ \E o1 \in Accounts, o2 \in Accounts, d1 \in Digests, d2 \in Digests :
          Kitties = insert(insert(<<>>, o1, u32_sub(NextKittyId, 2), d1),
                           o2, u32_sub(NextKittyId, 1), d2)
    /\ events = <<>>
    /\ blake2_128 = <<>>
    /\ last = NoCall

SpecNearMax == InitNearMax /\ [][BreedCall]_vars

----------------------------------------------------------------------------
(* The two pure functions, applied to arguments of their own: last holds  *)
(* the function, its arguments and what it returned.                       *)

AllBytes == 0 .. 255

\* Bytes of mixed bit patterns, of both parities
Bytes == {0, 1, 2, 3, 15, 16, 51, 85, 90, 127, 128, 170, 204, 240, 254, 255}

\* DNA with any first byte, the other bytes all equal to one of Bytes
Genomes ==
    {[i \in DnaIndex |-> IF i = 0 THEN first ELSE other] :
        first \in AllBytes, other \in Bytes}

\* done is FALSE until the function has been applied
Applied(function, args) ==
    [op |-> function, args |-> args, done |-> FALSE, result |-> "none"]

InitPure ==
    /\ NextKittyId = u32(0)
    /\ Kitties = <<>>
    /\ events = <<>>
    /\ blake2_128 = <<>>
    /\ \/ \E dna1 \in Bytes, dna2 \in Bytes, selector \in AllBytes :
             last = Applied("combine_dna", <<dna1, dna2, selector>>)
       \/ \E kitty \in Genomes :
             last = Applied("gender", <<kitty>>)

CombineDna ==
    /\ last.op = "combine_dna"
    /\ ~last.done
    /\ last' = [last EXCEPT
                  !.done = TRUE,
                  !.result = combine_dna(last.args[1], last.args[2], last.args[3])]
    /\ UNCHANGED <<NextKittyId, Kitties, events, blake2_128>>

Gender ==
    /\ last.op = "gender"
    /\ ~last.done
    /\ last' = [last EXCEPT !.done = TRUE, !.result = gender(last.args[1])]
    /\ UNCHANGED <<NextKittyId, Kitties, events, blake2_128>>

NextPure == CombineDna \/ Gender

SpecPure == InitPure /\ [][NextPure]_vars

----------------------------------------------------------------------------
(* Properties *)

Succeeded(call) == call.result = "Ok"

\* The identifiers in the map, over all owners
Ids == {k[2] : k \in DOMAIN Kitties}

Owns(owner, kitty_id) == <<owner, kitty_id>> \in DOMAIN Kitties

\* Every record of the store before the step is the same after it
Kept == \A k \in DOMAIN Kitties : k \in DOMAIN Kitties' /\ Kitties'[k] = Kitties[k]

\* C1: from genesis, the identifiers issued by the successful calls are
\* 0, 1, 2, ... in call order, and the counter is the number of identifiers
\* issued: a failed call consumes none.
C1_IssuedInOrder ==
    /\ NextKittyId = u32(Len(events))
    /\ \A i \in 1 .. Len(events) : events[i].kitty_id = u32(i - 1)

\* Two identifiers were issued, by two callers, the call after them failed,
\* and a call that issues the third can follow.
C1_Witness ==
    /\ Len(events) = 2
    /\ events[1].owner # events[2].owner
    /\ last.result \in Errors
    /\ ENABLED Create

\* C2: with the counter at the largest u32, a create, or a breed whose
\* parents pass the ownership and gender checks, fails with
\* KittiesIdOverflow and leaves the counter as it was.
C2_OverflowSafe ==
    [][(/\ NextKittyId = U32Max
        /\ \/ last'.op = "create"
           \/ /\ last'.op = "breed"
              /\ Allocates(last'.sender, last'.kitty_id_1, last'.kitty_id_2))
       => (last'.result = "KittiesIdOverflow" /\ NextKittyId' = NextKittyId)]_vars

\* A breed whose parents pass both checks failed at the largest counter.
C2_Witness ==
    /\ NextKittyId = U32Max
    /\ last.op = "breed"
    /\ last.result = "KittiesIdOverflow"
    /\ Allocates(last.sender, last.kitty_id_1, last.kitty_id_2)

\* C3: a breed that fails with SameGender leaves the counter as it was.
C3_SameGenderKeepsCounter ==
    [][last'.result = "SameGender" => NextKittyId' = NextKittyId]_vars

\* A breed of two different kitties of the caller failed with SameGender.
C3_Witness ==
    /\ last.op = "breed"
    /\ last.result = "SameGender"
    /\ last.kitty_id_1 # last.kitty_id_2
    /\ Owns(last.sender, last.kitty_id_1)
    /\ Owns(last.sender, last.kitty_id_2)

\* C4: a breed fails with InvalidKittyId whenever the caller owns no record
\* under one of the two identifiers, also when another account does; so a
\* breed that succeeds has both parents stored under the caller.
C4_OwnershipIsolation ==
    [][last'.op = "breed" =>
        /\ (~Owns(last'.sender, last'.kitty_id_1)
               \/ ~Owns(last'.sender, last'.kitty_id_2))
             => last'.result = "InvalidKittyId"
        /\ Succeeded(last')
             => (Owns(last'.sender, last'.kitty_id_1)
                   /\ Owns(last'.sender, last'.kitty_id_2))]_vars

\* A breed failed with InvalidKittyId although both identifiers are in the
\* store, of different genders, under another account.
C4_Witness ==
    /\ last.op = "breed"
    /\ last.result = "InvalidKittyId"
    /\ \E other \in Accounts \ {last.sender} :
          Allocates(other, last.kitty_id_1, last.kitty_id_2)

\* C5: no two records of the store have the same identifier, whoever owns
\* them.
C5_GloballyUnique ==
    \A k1 \in DOMAIN Kitties, k2 \in DOMAIN Kitties : k1[2] = k2[2] => k1 = k2

\* The store holds three records, of two owners.
C5_Witness ==
    /\ Cardinality(DOMAIN Kitties) = 3
    /\ \E k1 \in DOMAIN Kitties, k2 \in DOMAIN Kitties : k1[1] # k2[1]

\* C6: a record of the store stays in it, under the same owner and
\* identifier and with the same genome, at every later step.
C6_WriteOnce == [][Kept]_vars

\* A breed succeeded: its two parents are still in the store.
C6_Witness ==
    /\ last.op = "breed"
    /\ Succeeded(last)
    /\ Cardinality(DOMAIN Kitties) >= 3

\* C7: the counter is above every identifier issued; a successful call
\* advances it by exactly one and no call decreases it.
C7_CounterAdvance ==
    [][/\ \A i \in 1 .. Len(events') : u32_lt(events'[i].kitty_id, NextKittyId')
       /\ Succeeded(last') => NextKittyId' = u32_succ(NextKittyId)
       /\ u32_le(NextKittyId, NextKittyId')]_vars

\* The counter is 3 after a successful call.
C7_Witness ==
    /\ Succeeded(last)
    /\ NextKittyId = u32(3)
    /\ last.kitty_id = u32(2)

\* C8: a call that returns an error leaves the store as it was and deposits
\* no notification.
C8_NoPartialWrites ==
    [][last'.result \in Errors => (Kitties' = Kitties /\ events' = events)]_vars

\* A create failed with KittiesIdOverflow after a kitty was stored.
C8_Witness ==
    /\ last.op = "create"
    /\ last.result = "KittiesIdOverflow"
    /\ Len(events) >= 1

\* C9: a successful create, with c the counter before it, adds the one
\* record (caller, c), leaves the other records as they were, sets the
\* counter to c + 1 and deposits one KittyCreated(caller, c, kitty) whose
\* kitty is the record stored.
C9_CreateEffect ==
    [][(last'.op = "create" /\ Succeeded(last')) =>
        LET c == NextKittyId
            key == <<last'.sender, c>>
        IN  /\ key \notin DOMAIN Kitties
            /\ DOMAIN Kitties' = (DOMAIN Kitties) \cup {key}
            /\ Kept
            /\ NextKittyId' = u32_succ(c)
            /\ last'.kitty_id = c
            /\ events' = Append(events,
                   [name |-> "KittyCreated", owner |-> last'.sender,
                    kitty_id |-> c, kitty |-> Kitties'[key]])]_vars

\* A create succeeded in a store that held records of another owner.
C9_Witness ==
    /\ last.op = "create"
    /\ Succeeded(last)
    /\ \E k \in DOMAIN Kitties : k[1] # last.sender

\* C10: a successful breed, with c the counter before it, stores at
\* (caller, c) the genome whose byte i is combine_dna of byte i of the two
\* parents and of the selector derived in the call, deposits one
\* KittyBred(caller, c, kitty) with that genome and sets the counter to
\* c + 1.
C10_BreedResult ==
    [][(last'.op = "breed" /\ Succeeded(last')) =>
        LET c == NextKittyId
            caller == last'.sender
            parent1 == Kitties[<<caller, last'.kitty_id_1>>]
            parent2 == Kitties[<<caller, last'.kitty_id_2>>]
            selector == last'.random
            child == Kitties'[<<caller, c>>]
        IN  /\ selector = blake2_128'[payload(caller, last'.seed,
                                              last'.extrinsic_index)]
            /\ DOMAIN child = DnaIndex
            /\ \A i \in DnaIndex :
                  child[i] = combine_dna(parent1[i], parent2[i], selector[i])
            /\ events' = Append(events,
                   [name |-> "KittyBred", owner |-> caller, kitty_id |-> c,
                    kitty |-> child])
            /\ NextKittyId' = u32_succ(c)]_vars

\* A breed succeeded, and the child is the genome of neither parent.
C10_Witness ==
    /\ last.op = "breed"
    /\ Succeeded(last)
    /\ Kitties[<<last.sender, last.kitty_id>>]
          # Kitties[<<last.sender, last.kitty_id_1>>]
    /\ Kitties[<<last.sender, last.kitty_id>>]
          # Kitties[<<last.sender, last.kitty_id_2>>]

\* Bit k of a byte
Bit(byte, k) == (byte \div (2 ^ k)) % 2

\* C11: every bit of combine_dna(p1, p2, sel) is the bit of p1 where the bit
\* of sel is 0 and the bit of p2 where it is 1; and
\* combine_dna(0b10101010, 0b01010101, 0b11110000) = 0b01011010.
C11_CombineCorrect ==
    (last.op = "combine_dna" /\ last.done) =>
        LET p1 == last.args[1]
            p2 == last.args[2]
            sel == last.args[3]
        IN  /\ last.result \in AllBytes
            /\ \A k \in 0 .. 7 :
                  Bit(last.result, k)
                    = IF Bit(sel, k) = 0 THEN Bit(p1, k) ELSE Bit(p2, k)
            /\ last.args = <<170, 85, 240>> => last.result = 90

\* combine_dna was applied to the triple of the example.
C11_Witness ==
    /\ last.op = "combine_dna"
    /\ last.done
    /\ last.args = <<170, 85, 240>>

\* C14: gender is Male when the first byte of the DNA is even and Female
\* when it is odd, whatever the other bytes are (first byte 0x02 gives Male,
\* 0x03 gives Female).
C14_GenderOfFirstByte ==
    (last.op = "gender" /\ last.done) =>
        LET kitty == last.args[1]
        IN  /\ last.result = (IF kitty[0] % 2 = 0 THEN "Male" ELSE "Female")
            /\ kitty[0] = 2 => last.result = "Male"
            /\ kitty[0] = 3 => last.result = "Female"
            /\ \A other \in Genomes :
                  other[0] = kitty[0] => gender(other) = last.result

\* gender was applied to a DNA with first byte 0x03 and an even last byte.
C14_Witness ==
    /\ last.op = "gender"
    /\ last.done
    /\ last.args[1][0] = 3
    /\ last.args[1][DnaLen - 1] = 240

\* The calls that reach get_next_kitty_id, and so read the counter
Reaches(call) ==
    \/ call.op = "create"
    \/ call.op = "breed" /\ call.result \in {"Ok", "KittiesIdOverflow"}

\* C12 (as stated): no two calls observe the same value of the counter.
\* Here for two calls in a row: the first observed the identifier it was
\* issued or, when it failed, the counter it left as it was; the second
\* observes the counter before its step.
C12_NoSharedObservation ==
    [][(Reaches(last) /\ Reaches(last')) =>
        (IF Succeeded(last) THEN last.kitty_id ELSE NextKittyId)
            # NextKittyId]_vars

\* C12 (amended): a call that is issued an identifier is issued the value
\* of the counter it observed and advances the counter by one in the same
\* step; that value is not the largest u32, no earlier call was issued it
\* and no kitty in the store has it, so the identifiers issued so far are
\* all different; the calls that fail in get_next_kitty_id all observe the
\* largest u32, leave it in place and are issued nothing.
C12_AllocationAtomic ==
    [][/\ Succeeded(last') =>
            /\ last'.kitty_id = NextKittyId
            /\ NextKittyId' = u32_succ(NextKittyId)
            /\ NextKittyId # U32Max
            /\ \A i \in 1 .. Len(events) : events[i].kitty_id # NextKittyId
            /\ NextKittyId \notin Ids
            /\ Len(events') = Len(events) + 1
            /\ events'[Len(events')].kitty_id = NextKittyId
       /\ \A i \in 1 .. Len(events'), j \in 1 .. Len(events') :
            events'[i].kitty_id = events'[j].kitty_id => i = j
       /\ (Reaches(last') /\ ~Succeeded(last')) =>
            /\ NextKittyId = U32Max
            /\ NextKittyId' = NextKittyId
            /\ last'.kitty_id = NoId
            /\ events' = events]_vars

\* A create and then a breed of another caller were issued the two
\* identifiers below the largest u32, after the two issued before them, and
\* then a call failed in get_next_kitty_id.
C12_Witness ==
    /\ Len(events) = 4
    /\ events[3].name = "KittyCreated"
    /\ events[3].kitty_id = u32_sub(U32Max, 2)
    /\ events[4].name = "KittyBred"
    /\ events[4].kitty_id = u32_sub(U32Max, 1)
    /\ events[3].owner # events[4].owner
    /\ Reaches(last)
    /\ last.result = "KittiesIdOverflow"

Results == Errors \cup {"Ok"}

\* The result of breed by the order of its checks
ExpectedOfBreed(sender, kitty_id_1, kitty_id_2) ==
    IF ~Owns(sender, kitty_id_1) \/ ~Owns(sender, kitty_id_2)
    THEN "InvalidKittyId"
    ELSE IF gender(Kitties[<<sender, kitty_id_1>>])
              = gender(Kitties[<<sender, kitty_id_2>>])
    THEN "SameGender"
    ELSE IF NextKittyId = U32Max THEN "KittiesIdOverflow"
    ELSE "Ok"

\* breed(sender, kitty_id_1, kitty_id_2) can return result in this state
CanReturn(sender, kitty_id_1, kitty_id_2, result) ==
    ENABLED (breed(sender, kitty_id_1, kitty_id_2) /\ last'.result = result)

\* The results breed can return in this state, by caller and arguments
Returns ==
    [sender \in Accounts, kitty_id_1 \in IdArgs, kitty_id_2 \in IdArgs
        |-> {result \in Results :
                CanReturn(sender, kitty_id_1, kitty_id_2, result)}]

\* C15: in every state and for all arguments, breed returns InvalidKittyId
\* if the caller owns no record under one of the identifiers, otherwise
\* SameGender if the parents have the same gender, otherwise
\* KittiesIdOverflow if the counter is the largest u32, otherwise Ok; and it
\* returns the same with the two identifiers swapped.
C15_BreedOutcome ==
    \E returns \in {Returns} :
        \A sender \in Accounts, kitty_id_1 \in IdArgs, kitty_id_2 \in IdArgs :
            /\ returns[sender, kitty_id_1, kitty_id_2]
                 = {ExpectedOfBreed(sender, kitty_id_1, kitty_id_2)}
            /\ returns[sender, kitty_id_1, kitty_id_2]
                 = returns[sender, kitty_id_2, kitty_id_1]

\* With the counter at the largest u32, a breed of two different kitties of
\* the caller returned SameGender.
C15_Witness ==
    /\ NextKittyId = U32Max
    /\ last.op = "breed"
    /\ last.result = "SameGender"
    /\ last.kitty_id_1 # last.kitty_id_2

\* What random_value hashed in a successful call
Hashed(call) == payload(call.sender, call.seed, call.extrinsic_index)

\* C16: two successful calls, one after the other, of the same caller under
\* the same randomness seed never derive the same genome or selector from
\* the same hashed value (two different hashed values with one digest are a
\* collision of blake2_128, which the claim is not about).
C16_DistinctRandomness ==
    [][(/\ Succeeded(last) /\ Succeeded(last')
        /\ last.sender = last'.sender
        /\ last.seed = last'.seed)
          => (last.random # last'.random \/ Hashed(last) # Hashed(last'))]_vars

\* C17: the number of records in Kitties is the counter NextKittyId, and the
\* identifiers in the map, over all owners, are exactly 0 .. NextKittyId - 1.
C17_StoreCounterAgreement ==
    /\ NextKittyId = u32(Cardinality(DOMAIN Kitties))
    /\ Ids = {u32(i) : i \in 0 .. Cardinality(DOMAIN Kitties) - 1}

\* Three records, the last one bred.
C17_Witness ==
    /\ Cardinality(DOMAIN Kitties) = 3
    /\ Succeeded(last)
    /\ last.op = "breed"
    /\ last.kitty_id = u32(2)

\* C18: a call breed(caller, id, id) never succeeds: it returns
\* InvalidKittyId when the caller owns no record under id and SameGender when
\* the caller owns one, and it leaves the store, the counter and the events
\* as they were.
C18_NoSelfBreeding ==
    [][(last'.op = "breed" /\ last'.kitty_id_1 = last'.kitty_id_2) =>
          /\ last'.result = IF Owns(last'.sender, last'.kitty_id_1)
                            THEN "SameGender" ELSE "InvalidKittyId"
          /\ Kitties' = Kitties
          /\ NextKittyId' = NextKittyId
          /\ events' = events
          /\ blake2_128' = blake2_128]_vars

\* The caller bred a kitty of theirs with itself, while owning a kitty of
\* the other gender, and got SameGender.
C18_Witness ==
    /\ last.op = "breed"
    /\ last.kitty_id_1 = last.kitty_id_2
    /\ last.result = "SameGender"
    /\ Owns(last.sender, last.kitty_id_1)
    /\ \E k \in DOMAIN Kitties :
          /\ k[1] = last.sender
          /\ gender(Kitties[k]) # gender(Kitties[<<last.sender, last.kitty_id_1>>])

\* C19: after a successful breed(caller, id1, id2) the new kitty has the
\* gender of the parent at id1 when the lowest bit of byte 0 of the selector
\* is 0, and the gender of the parent at id2 when that bit is 1, whatever
\* the other bits of the selector and the other bytes of the parents are.
C19_OffspringGender ==
    (Succeeded(last) /\ last.op = "breed") =>
        LET child == Kitties[<<last.sender, last.kitty_id>>]
            parent1 == Kitties[<<last.sender, last.kitty_id_1>>]
            parent2 == Kitties[<<last.sender, last.kitty_id_2>>]
        IN  gender(child) = IF Bit(last.random[0], 0) = 0
                            THEN gender(parent1) ELSE gender(parent2)

\* A breed whose selector has the lowest bit of byte 0 set gave a kitty of
\* the gender of the second parent, which is not that of the first.
C19_Witness ==
    /\ Succeeded(last)
    /\ last.op = "breed"
    /\ Bit(last.random[0], 0) = 1
    /\ gender(Kitties[<<last.sender, last.kitty_id>>])
         = gender(Kitties[<<last.sender, last.kitty_id_2>>])
    /\ gender(Kitties[<<last.sender, last.kitty_id>>])
         # gender(Kitties[<<last.sender, last.kitty_id_1>>])

\* C20: no kitty ever has the largest u32 as its identifier, in the store
\* or in a notification; and once the counter is the largest u32 it stays
\* there, and every create fails with KittiesIdOverflow and stores nothing.
C20_LargestNeverIssued ==
    [][/\ \A k \in DOMAIN Kitties' : k[2] # U32Max
       /\ \A i \in 1 .. Len(events') : events'[i].kitty_id # U32Max
       /\ NextKittyId = U32Max =>
            /\ NextKittyId' = U32Max
            /\ last'.op = "create" =>
                 /\ last'.result = "KittiesIdOverflow"
                 /\ Kitties' = Kitties
                 /\ events' = events]_vars

\* The identifier below the largest was issued last, to a kitty in the
\* store, and a create of another account then failed.
C20_Witness ==
    /\ NextKittyId = U32Max
    /\ u32_sub(U32Max, 1) \in Ids
    /\ last.op = "create"
    /\ last.result = "KittiesIdOverflow"
    /\ Len(events) >= 1
    /\ events[Len(events)].kitty_id = u32_sub(U32Max, 1)
    /\ events[Len(events)].owner # last.sender

====
